---- MODULE Spec2Model ----
(***************************************************************************)
(* A model of the dairy-animal analyzer: the module-level state of         *)
(* insights.py (model handle, two breed tables), detect_breed,             *)
(* get_breed_insights, the generator get_insights_stream together with the  *)
(* consumer loop of app.py, and ImageClassification of image_classifier.py. *)
(*                                                                         *)
(* Encodings.  A DataFrame is [columns |-> set of column names,             *)
(* rows |-> sequence of rows], a row a function from the columns to cell    *)
(* values.  A money cell is a non-negative fixed-point number with          *)
(* Denominator units per rupee (the CSV reader yields floats as well as     *)
(* ints), or NaN for an empty cell.  A formatted string is a record         *)
(* [kind, text, groups]: groups are the comma-separated digit groups of a   *)
(* number printed with the "," format option.                               *)
(***************************************************************************)
EXTENDS Integers, Sequences, FiniteSets, TLC

VARIABLES
    breed_classifier,   \* insights.py global: TRUE = pipeline loaded, FALSE = None
    csv_files,          \* the two reference files as pd.read_csv finds them
    cow_breeds,         \* insights.py global
    buff_breeds,        \* insights.py global
    pc,                 \* position of the generator get_insights_stream
    animal,             \* generator argument
    model_outcome,      \* what opening the image and calling the model did
    detected_breed,     \* generator local
    gen_insights,       \* generator local insights_data (<<>> = unbound)
    events,             \* the updates delivered to the for loop of app.py
    insights_data,      \* app.py local (<<>> = None)
    model_calls,        \* candidate label lists the breed model was invoked with
    resolver_calls,     \* invocations of get_breed_insights made by the generator
    lookup,             \* last direct call of get_breed_insights (<<>> = none)
    last_confidence,    \* ImageClassification.last_confidence, in score units
    classify_log        \* calls of image_classification on the instance

vars == <<breed_classifier, csv_files, cow_breeds, buff_breeds, pc, animal,
          model_outcome, detected_breed, gen_insights, events, insights_data, model_calls,
          resolver_calls, lookup, last_confidence, classify_log>>

-----------------------------------------------------------------------------
\* Bounds of the model

MaxRows == 2          \* rows of a reference file
Denominator == 2      \* fixed-point units per rupee of a money cell
MaxCalls == 2         \* image_classification calls on one instance
MaxScore == 2         \* model scores range over 0..MaxScore

NaN == 0 - 1          \* an empty numeric cell

MonthsPerYear == 12

-----------------------------------------------------------------------------
\* Strings

Species == {"cow", "buffalo"}

Lower(s) ==
    CASE s = "Cow" -> "cow"
      [] s = "Buffalo" -> "buffalo"
      [] OTHER -> s

Capitalize(s) ==
    CASE s = "cow" -> "Cow"
      [] s = "buffalo" -> "Buffalo"
      [] OTHER -> s

\* f"{prefix} {species}"
FormatPlaceholder(prefix, species) ==
    CASE prefix = "Default" /\ species = "Cow" -> "Default Cow"
      [] prefix = "Default" /\ species = "Buffalo" -> "Default Buffalo"
      [] prefix = "Unknown" /\ species = "Cow" -> "Unknown Cow"
      [] prefix = "Unknown" /\ species = "Buffalo" -> "Unknown Buffalo"
      [] prefix = "Uncertain" /\ species = "Cow" -> "Uncertain Cow"
      [] prefix = "Uncertain" /\ species = "Buffalo" -> "Uncertain Buffalo"
      [] OTHER -> prefix

Text(s) == [kind |-> "text", text |-> s, groups |-> <<>>]

RECURSIVE Groups(_)
\* digit groups of format(n, ","): 84000 -> <<84, 0>>
Groups(n) ==
    IF n < 1000 THEN <<n>> ELSE Append(Groups(n \div 1000), n % 1000)

\* f"₹{n:,}"
Rupees(n) == [kind |-> "inr", text |-> "INR", groups |-> Groups(n)]

\* f"{v} Liters"
Liters(v) == [kind |-> "liters", text |-> " Liters", groups |-> <<v>>]

\* int(x) of a money cell: truncation (cells are never negative)
IntOf(x) == x \div Denominator

\* int(x) raises ValueError on an empty cell
IntRaises(x) == x = NaN

-----------------------------------------------------------------------------
\* Reference tables

BreedCol == "Breed_Type"
AreasCol == "Popular_Areas"
CostCol(a) == IF a = "cow" THEN "Cost_Of_Cow_INR" ELSE "Cost_per_Buffalo_INR"
MonthlyCol(a) ==
    IF a = "cow" THEN "Monthly_Income_INR" ELSE "Monthly_Income_per_Buffalo_INR"
MilkCol(a) == IF a = "cow" THEN "Milk_Per_Day_Litres" ELSE "Milk_per_Day_Liters"

AllColumns(a) == {BreedCol, CostCol(a), MonthlyCol(a), AreasCol, MilkCol(a)}

Row(a, name, cost, monthly, areas, milk) ==
    (BreedCol :> name) @@ (CostCol(a) :> cost * Denominator)
        @@ (MonthlyCol(a) :> monthly * Denominator)
        @@ (AreasCol :> areas) @@ (MilkCol(a) :> milk)

DataFrame(a, rows) == [columns |-> AllColumns(a), rows |-> rows]

SampleCow ==
    DataFrame("cow",
        << Row("cow", "Holstein-Friesian", 50000, 8000, "Punjab, Haryana", 20),
           Row("cow", "Jersey", 45000, 7500, "Global", 15),
           Row("cow", "Guernsey", 40000, 7000, "UK, US", 12) >>)

SampleBuff ==
    DataFrame("buffalo",
        << Row("buffalo", "Murrah", 60000, 9000, "Haryana, Punjab", 18),
           Row("buffalo", "Nili-Ravi", 55000, 8500, "Pakistan, Punjab", 16),
           Row("buffalo", "Jaffarabadi", 65000, 9500, "Gujarat", 20) >>)

None == [columns |-> {"<None>"}, rows |-> <<>>]

ReadError == [ok |-> FALSE, table |-> None]
ReadOk(t) == [ok |-> TRUE, table |-> t]

\* The "load one, keep the other" variant of the table load
LoadTablesPerFile(files) ==
    [cow |-> IF files.cow.ok THEN files.cow.table ELSE SampleCow,
     buffalo |-> IF files.buffalo.ok THEN files.buffalo.table ELSE SampleBuff]

\* try: both read_csv calls; except: both sample tables
LoadTables(files) ==
    IF files.cow.ok /\ files.buffalo.ok
    THEN [cow |-> files.cow.table, buffalo |-> files.buffalo.table]
    ELSE [cow |-> SampleCow, buffalo |-> SampleBuff]

\* Contents a reference file can have: up to n rows over the given breed names
\* and monthly-income cells, with one of the given sets of columns absent.
Restrict(f, S) == [c \in S |-> f[c]]

GenRow(a, name, monthlyCell) ==
    (BreedCol :> name) @@ (CostCol(a) :> 40000 * Denominator)
        @@ (MonthlyCol(a) :> monthlyCell)
        @@ (AreasCol :> "Global") @@ (MilkCol(a) :> 15)

CsvTables(a, names, cells, missing, n) ==
    UNION { UNION { { [columns |-> AllColumns(a) \ miss,
                       rows |-> [i \in 1..k |->
                                   Restrict(GenRow(a, f[i][1], f[i][2]),
                                            AllColumns(a) \ miss)]]
                      : f \in [1..k -> names \X cells] }
                    : k \in 0..n }
            : miss \in missing }

BreedNames == {"Jersey", "Murrah"}

WholeCell == 7000 * Denominator
FractionCell == 7000 * Denominator + 1

\* Files of the streaming specification
StreamFiles(a) ==
    {ReadError} \cup
    { ReadOk(t) : t \in CsvTables(a, BreedNames, {WholeCell},
                                  {{}, {BreedCol}, {CostCol(a)}}, MaxRows) }

\* Files of the lookup specification
LookupTables(a) ==
    CsvTables(a, BreedNames, {WholeCell, FractionCell, NaN},
              SUBSET {BreedCol, CostCol(a), MonthlyCol(a), MilkCol(a)}, MaxRows)

-----------------------------------------------------------------------------
\* detect_breed

TableOf(a) == IF a = "cow" THEN cow_breeds ELSE buff_breeds

FallbackLabels(animal_type) ==
    IF Lower(animal_type) = "cow"
    THEN <<"Holstein-Friesian", "Jersey", "Murrah", "Nili-Ravi">>
    ELSE <<"Murrah", "Nili-Ravi", "Jaffarabadi", "Bhadawari">>

\* df["Breed_Type"].tolist()
ColumnToList(df) == [i \in 1..Len(df.rows) |-> df.rows[i][BreedCol]]

\* the table detect_breed takes the labels from, None for the fallback list
LabelSource(animal_type) ==
    IF Lower(animal_type) = "cow" /\ cow_breeds # None THEN cow_breeds
    ELSE IF Lower(animal_type) = "buffalo" /\ buff_breeds # None THEN buff_breeds
    ELSE None

\* df["Breed_Type"] raises KeyError, outside the try block
LabelsRaise(animal_type) ==
    /\ LabelSource(animal_type) # None
    /\ BreedCol \notin LabelSource(animal_type).columns

\* The candidate selection with the fallback list taken for an empty table
CandidateLabelsFallbackOnEmpty(animal_type) ==
    IF LabelSource(animal_type) # None
       /\ ColumnToList(LabelSource(animal_type)) # <<>>
    THEN ColumnToList(LabelSource(animal_type))
    ELSE FallbackLabels(animal_type)

CandidateLabels(animal_type) ==
    IF LabelSource(animal_type) # None
    THEN ColumnToList(LabelSource(animal_type))
    ELSE FallbackLabels(animal_type)

\* What opening the image and calling the model can do: Image.open raises, the
\* pipeline raises, or it returns a ranking of the candidate labels (any of
\* them on top), or an empty list.
Rotate(s, i) == [j \in 1..Len(s) |-> s[((i + j - 2) % Len(s)) + 1]]

Ranking(labels, i) ==
    [j \in 1..Len(labels) |->
        [label |-> Rotate(labels, i)[j], score |-> Len(labels) - j]]

ModelOutcomes(labels) ==
    { [kind |-> "open_error", results |-> <<>>],
      [kind |-> "model_error", results |-> <<>>],
      [kind |-> "results", results |-> <<>>] }
    \cup { [kind |-> "results", results |-> Ranking(labels, i)]
             : i \in 1..Len(labels) }

Unused == [kind |-> "unused", results |-> <<>>]

\* whether detect_breed gets as far as its try block
ReachesModel(animal_type) ==
    /\ breed_classifier
    /\ ~LabelsRaise(animal_type)
    /\ CandidateLabels(animal_type) # <<>>

Outcomes(animal_type) ==
    IF ReachesModel(animal_type)
    THEN ModelOutcomes(CandidateLabels(animal_type))
    ELSE {Unused}

Returns(v, called) == [raised |-> FALSE, value |-> v, called |-> called]
Raises(e) == [raised |-> TRUE, value |-> e, called |-> <<>>]

\* detect_breed with a failed model call reported as an uncertain result
detect_breed_uncertain_on_error(animal_type, outcome) ==
    IF ~breed_classifier
    THEN Returns(FormatPlaceholder("Default", Capitalize(animal_type)), <<>>)
    ELSE IF LabelsRaise(animal_type) THEN Raises("KeyError")
    ELSE IF CandidateLabels(animal_type) = <<>>
    THEN Returns(FormatPlaceholder("Unknown", Capitalize(animal_type)), <<>>)
    ELSE IF outcome.kind = "results" /\ Len(outcome.results) > 0
    THEN Returns(outcome.results[1].label, <<CandidateLabels(animal_type)>>)
    ELSE Returns(FormatPlaceholder("Uncertain", Capitalize(animal_type)),
                 IF outcome.kind = "open_error" THEN <<>>
                 ELSE <<CandidateLabels(animal_type)>>)

\* value: the breed name returned (or the exception raised); called: the label
\* lists the model was invoked with
detect_breed(animal_type, outcome) ==
    IF ~breed_classifier
    THEN Returns(FormatPlaceholder("Default", Capitalize(animal_type)), <<>>)
    ELSE IF LabelsRaise(animal_type) THEN Raises("KeyError")
    ELSE IF CandidateLabels(animal_type) = <<>>
    THEN Returns(FormatPlaceholder("Unknown", Capitalize(animal_type)), <<>>)
    ELSE IF outcome.kind = "open_error"
    THEN Returns("Error detecting breed", <<>>)
    ELSE IF outcome.kind = "model_error"
    THEN Returns("Error detecting breed", <<CandidateLabels(animal_type)>>)
    ELSE IF Len(outcome.results) > 0
    THEN Returns(outcome.results[1].label, <<CandidateLabels(animal_type)>>)
    ELSE Returns(FormatPlaceholder("Uncertain", Capitalize(animal_type)),
                 <<CandidateLabels(animal_type)>>)

-----------------------------------------------------------------------------
\* get_breed_insights

\* record.get(col, default)
Get(record, col, default) ==
    IF col \in DOMAIN record THEN record[col] ELSE default

\* The filter dropped: every row is taken as a match
SelectBreedUnfiltered(df, breed_type) == df.rows

\* df[df["Breed_Type"] == breed_type]
SelectBreed(df, breed_type) ==
    SelectSeq(df.rows, LAMBDA r : r[BreedCol] = breed_type)

\* The yearly figure without the multiplication
AnnualIncomeUnscaled(monthly) == IntOf(monthly)

\* int(monthly * 12)
AnnualIncome(monthly) == IntOf(monthly * MonthsPerYear)

MilkPerDay(record, a) ==
    IF MilkCol(a) \in DOMAIN record
    THEN Liters(record[MilkCol(a)])
    ELSE Text("N/A Liters")

NotAvailable(breed_type) ==
    [breed_type |-> breed_type,
     starting_expenditure |-> Text("Data not available"),
     annual_income |-> Text("Data not available"),
     farmers_percent |-> "--",
     popular_areas |-> Text("Data not available"),
     milk_per_day |-> Text("Data not available"),
     monthly_income |-> Text("Data not available")]

ErrorFetching(breed_type) ==
    [breed_type |-> breed_type,
     starting_expenditure |-> Text("Error fetching data"),
     annual_income |-> Text("Error fetching data"),
     farmers_percent |-> "--",
     popular_areas |-> Text("Error fetching data"),
     milk_per_day |-> Text("Error fetching data"),
     monthly_income |-> Text("Error fetching data")]

\* building the cow dictionary raises: record['Cost_Of_Cow_INR'] is a KeyError
\* without the column, int() a ValueError on an empty cell
CowRecordRaises(record) ==
    \/ CostCol("cow") \notin DOMAIN record
    \/ IntRaises(record[CostCol("cow")])
    \/ IntRaises(Get(record, MonthlyCol("cow"), 0))

\* building the buffalo dictionary raises: every column is read with .get
BuffRecordRaises(record) ==
    \/ IntRaises(Get(record, CostCol("buffalo"), 0))
    \/ IntRaises(Get(record, MonthlyCol("buffalo"), 0))

CowRecord(record) ==
    [breed_type |-> record[BreedCol],
     starting_expenditure |-> Rupees(IntOf(record[CostCol("cow")])),
     annual_income |-> Rupees(AnnualIncome(Get(record, MonthlyCol("cow"), 0))),
     farmers_percent |-> "--",
     popular_areas |-> Text(Get(record, AreasCol, "N/A")),
     milk_per_day |-> MilkPerDay(record, "cow"),
     monthly_income |-> Rupees(IntOf(Get(record, MonthlyCol("cow"), 0)))]

BuffRecord(record) ==
    [breed_type |-> record[BreedCol],
     starting_expenditure |-> Rupees(IntOf(Get(record, CostCol("buffalo"), 0))),
     annual_income |->
         Rupees(AnnualIncome(Get(record, MonthlyCol("buffalo"), 0))),
     farmers_percent |-> "--",
     popular_areas |-> Text(Get(record, AreasCol, "N/A")),
     milk_per_day |-> MilkPerDay(record, "buffalo"),
     monthly_income |-> Rupees(IntOf(Get(record, MonthlyCol("buffalo"), 0)))]

get_breed_insights(breed_type, animal_type) ==
    IF Lower(animal_type) = "cow" /\ cow_breeds # None
    THEN IF BreedCol \notin cow_breeds.columns
         THEN ErrorFetching(breed_type)
         ELSE LET breed_data == SelectBreed(cow_breeds, breed_type)
              IN  IF breed_data # <<>>
                  THEN IF CowRecordRaises(breed_data[1])
                       THEN ErrorFetching(breed_type)
                       ELSE CowRecord(breed_data[1])
                  ELSE NotAvailable(breed_type)
    ELSE IF Lower(animal_type) = "buffalo" /\ buff_breeds # None
    THEN IF BreedCol \notin buff_breeds.columns
         THEN ErrorFetching(breed_type)
         ELSE LET breed_data == SelectBreed(buff_breeds, breed_type)
              IN  IF breed_data # <<>>
                  THEN IF BuffRecordRaises(breed_data[1])
                       THEN ErrorFetching(breed_type)
                       ELSE BuffRecord(breed_data[1])
                  ELSE NotAvailable(breed_type)
    ELSE NotAvailable(breed_type)

-----------------------------------------------------------------------------
\* get_insights_stream and the loop of app.py that consumes it

Update(progress, message) == [progress |-> progress, message |-> message]

\* The final update without its data
FinalUpdateNoData(data) == Update(100, <<"Analysis complete!">>)

FinalUpdate(data) ==
    [progress |-> 100, message |-> <<"Analysis complete!">>, data |-> data]

\* one pass of the for loop body on a yielded update
Deliver(update) ==
    /\ events' = Append(events, update)
    /\ insights_data' =
           IF "data" \in DOMAIN update THEN <<update.data>> ELSE insights_data

classifier_vars == <<last_confidence, classify_log>>
module_vars == <<breed_classifier, csv_files, cow_breeds, buff_breeds>>
stream_vars == <<pc, animal, model_outcome, detected_breed, gen_insights,
                 events, insights_data, model_calls, resolver_calls>>

\* "Analyze Animal" pressed: the generator object is created, no code of it runs
Analyze(a) ==
    /\ pc \in {"idle", "done", "raised"}
    /\ pc' = "created"
    /\ animal' = a
    /\ model_outcome' = Unused
    /\ detected_breed' = ""
    /\ gen_insights' = <<>>
    /\ events' = <<>>
    /\ insights_data' = <<>>
    /\ model_calls' = <<>>
    /\ resolver_calls' = <<>>
    /\ UNCHANGED <<module_vars, lookup, classifier_vars>>

Stage1 ==
    /\ pc = "created"
    /\ Deliver(Update(5, <<"Initializing analysis...">>))
    /\ pc' = "stage1"
    /\ UNCHANGED <<module_vars, animal, model_outcome, detected_breed,
                   gen_insights, model_calls, resolver_calls, lookup,
                   classifier_vars>>

Stage2 ==
    /\ pc = "stage1"
    /\ Deliver(Update(30, <<"Analyzing image to detect specific breed...">>))
    /\ pc' = "stage2"
    /\ UNCHANGED <<module_vars, animal, model_outcome, detected_breed,
                   gen_insights, model_calls, resolver_calls, lookup,
                   classifier_vars>>

\* resumed after the 30 update: detect_breed runs, then the 50 update
Detect ==
    /\ pc = "stage2"
    /\ \E outcome \in Outcomes(animal) :
         LET r == detect_breed(animal, outcome)
         IN  /\ model_outcome' = outcome
             /\ IF r.raised
                THEN /\ pc' = "raised"
                     /\ UNCHANGED <<detected_breed, model_calls, events,
                                    insights_data>>
                ELSE /\ pc' = "detected"
                     /\ detected_breed' = r.value
                     /\ model_calls' = model_calls \o r.called
                     /\ Deliver(Update(50,
                            <<"Breed detected: ", r.value,
                              ". Fetching business insights...">>))
    /\ UNCHANGED <<module_vars, animal, gen_insights, resolver_calls, lookup,
                   classifier_vars>>

Stage3 ==
    /\ pc = "detected"
    /\ Deliver(Update(75,
           <<"Retrieving detailed business analytics from database...">>))
    /\ pc' = "stage3"
    /\ UNCHANGED <<module_vars, animal, model_outcome, detected_breed,
                   gen_insights, model_calls, resolver_calls, lookup,
                   classifier_vars>>

\* Stage4 with the two arguments of get_breed_insights exchanged
Stage4SwappedArguments ==
    /\ pc = "stage3"
    /\ LET data == get_breed_insights(animal, detected_breed)
       IN  /\ gen_insights' = <<data>>
           /\ resolver_calls' =
                  Append(resolver_calls,
                         [breed_type |-> animal, animal_type |-> detected_breed,
                          delivered |-> Len(events), result |-> data])
    /\ Deliver(Update(90, <<"Formatting and validating results...">>))
    /\ pc' = "stage4"
    /\ UNCHANGED <<module_vars, animal, model_outcome, detected_breed,
                   model_calls, lookup, classifier_vars>>

\* resumed after the 75 update: get_breed_insights runs, then the 90 update
Stage4 ==
    /\ pc = "stage3"
    /\ LET data == get_breed_insights(detected_breed, animal)
       IN  /\ gen_insights' = <<data>>
           /\ resolver_calls' =
                  Append(resolver_calls,
                         [breed_type |-> detected_breed, animal_type |-> animal,
                          delivered |-> Len(events), result |-> data])
    /\ Deliver(Update(90, <<"Formatting and validating results...">>))
    /\ pc' = "stage4"
    /\ UNCHANGED <<module_vars, animal, model_outcome, detected_breed,
                   model_calls, lookup, classifier_vars>>

Stage5 ==
    /\ pc = "stage4"
    /\ Deliver(FinalUpdate(gen_insights[1]))
    /\ pc' = "stage5"
    /\ UNCHANGED <<module_vars, animal, model_outcome, detected_breed,
                   gen_insights, model_calls, resolver_calls, lookup,
                   classifier_vars>>

\* resumed after the 100 update: the generator returns and the loop ends
Exhaust ==
    /\ pc = "stage5"
    /\ pc' = "done"
    /\ UNCHANGED <<module_vars, animal, model_outcome, detected_breed,
                   gen_insights, events, insights_data, model_calls,
                   resolver_calls, lookup, classifier_vars>>

StreamIdle ==
    /\ pc = "idle"
    /\ animal = "cow"
    /\ model_outcome = Unused
    /\ detected_breed = ""
    /\ gen_insights = <<>>
    /\ events = <<>>
    /\ insights_data = <<>>
    /\ model_calls = <<>>
    /\ resolver_calls = <<>>

ClassifierIdle ==
    /\ last_confidence = 0
    /\ classify_log = <<>>

\* insights.py imported: the model handle is loaded or None, the tables are
\* what the load block leaves
Imported(files) ==
    /\ csv_files = files
    /\ cow_breeds = LoadTables(files).cow
    /\ buff_breeds = LoadTables(files).buffalo

Init ==
    /\ breed_classifier \in BOOLEAN
    /\ \E c \in StreamFiles("cow"), b \in StreamFiles("buffalo") :
           Imported([cow |-> c, buffalo |-> b])
    /\ StreamIdle
    /\ lookup = <<>>
    /\ ClassifierIdle

Next ==
    \/ \E a \in Species : Analyze(a)
    \/ Stage1
    \/ Stage2
    \/ Detect
    \/ Stage3
    \/ Stage4
    \/ Stage5
    \/ Exhaust

Spec == Init /\ [][Next]_vars

-----------------------------------------------------------------------------
\* get_breed_insights called on its own, over a wider range of tables

Placeholders ==
    {"Default Cow", "Default Buffalo", "Unknown Cow", "Unknown Buffalo",
     "Uncertain Cow", "Uncertain Buffalo", "Error detecting breed"}

QueryNames == BreedNames \cup {"jersey", "Guernsey"} \cup Placeholders

LookupCall(breed_type, animal_type) ==
    /\ lookup = <<>>
    /\ lookup' = <<[breed_type |-> breed_type, animal_type |-> animal_type,
                    result |-> get_breed_insights(breed_type, animal_type)]>>
    /\ UNCHANGED <<module_vars, stream_vars, classifier_vars>>

InitLookup ==
    /\ breed_classifier \in BOOLEAN
    /\ \/ \E t \in LookupTables("cow") :
            Imported([cow |-> ReadOk(t), buffalo |-> ReadOk(SampleBuff)])
       \/ \E t \in LookupTables("buffalo") :
            Imported([cow |-> ReadOk(SampleCow), buffalo |-> ReadOk(t)])
    /\ StreamIdle
    /\ lookup = <<>>
    /\ ClassifierIdle

NextLookup == \E b \in QueryNames, a \in Species : LookupCall(b, a)

SpecLookup == InitLookup /\ [][NextLookup]_vars

-----------------------------------------------------------------------------
\* ImageClassification

labels == <<"cow", "buffalo">>

Scores == 0..MaxScore

\* what self.classifier(image, candidate_labels=self.labels) can return
ClassifierResults ==
    {<<>>} \cup
    { << [label |-> labels[i], score |-> hi],
         [label |-> labels[3 - i], score |-> lo] >>
        : <<i, hi, lo>> \in
            {t \in (1..2) \X Scores \X Scores : t[2] >= t[3]} }

\* image_classification with the confidence cleared when nothing is returned
image_classification_reset(results) ==
    IF Len(results) > 0
    THEN [returned |-> results[1].label, confidence |-> results[1].score]
    ELSE [returned |-> "Unknown", confidence |-> 0]

\* returned: the return value; confidence: self.last_confidence afterwards
image_classification(results) ==
    IF Len(results) > 0
    THEN [returned |-> results[1].label, confidence |-> results[1].score]
    ELSE [returned |-> "Unknown", confidence |-> last_confidence]

Classify(results) ==
    /\ Len(classify_log) < MaxCalls
    /\ last_confidence' = image_classification(results).confidence
    /\ classify_log' =
           Append(classify_log,
                  [raised |-> FALSE, results |-> results,
                   returned |-> image_classification(results).returned])
    /\ UNCHANGED <<module_vars, stream_vars, lookup>>

\* Image.open or the pipeline raises: the call propagates it, nothing is stored
ClassifyRaises ==
    /\ Len(classify_log) < MaxCalls
    /\ classify_log' =
           Append(classify_log,
                  [raised |-> TRUE, results |-> <<>>, returned |-> ""])
    /\ UNCHANGED <<module_vars, stream_vars, lookup, last_confidence>>

InitClassifier ==
    /\ breed_classifier \in BOOLEAN
    /\ Imported([cow |-> ReadError, buffalo |-> ReadError])
    /\ StreamIdle
    /\ lookup = <<>>
    /\ ClassifierIdle

NextClassifier ==
    \/ \E results \in ClassifierResults : Classify(results)
    \/ ClassifyRaises

SpecClassifier == InitClassifier /\ [][NextClassifier]_vars

-----------------------------------------------------------------------------
\* Properties

Progress(updates) == [i \in 1..Len(updates) |-> updates[i].progress]

IsPrefix(s, t) == Len(s) <= Len(t) /\ \A i \in 1..Len(s) : s[i] = t[i]

CarriesData(updates) == {i \in 1..Len(updates) : "data" \in DOMAIN updates[i]}

RECURSIVE Value(_)
\* the number a sequence of digit groups denotes
Value(groups) ==
    IF Len(groups) = 0 THEN 0
    ELSE Value(SubSeq(groups, 1, Len(groups) - 1)) * 1000 + groups[Len(groups)]

DetectReturned == pc \in {"detected", "stage3", "stage4", "stage5", "done"}

DataNotAvailable(breed_type) ==
    [breed_type |-> breed_type,
     starting_expenditure |->
         [kind |-> "text", text |-> "Data not available", groups |-> <<>>],
     annual_income |->
         [kind |-> "text", text |-> "Data not available", groups |-> <<>>],
     farmers_percent |-> "--",
     popular_areas |->
         [kind |-> "text", text |-> "Data not available", groups |-> <<>>],
     milk_per_day |->
         [kind |-> "text", text |-> "Data not available", groups |-> <<>>],
     monthly_income |->
         [kind |-> "text", text |-> "Data not available", groups |-> <<>>]]

\* C1, as stated: a fully consumed stream has delivered exactly the five
\* updates 5, 30, 50, 75, 100, and only the last of them carries data.
C1_FiveEvents ==
    pc = "done" =>
        /\ Progress(events) = <<5, 30, 50, 75, 100>>
        /\ CarriesData(events) = {5}

\* C1, amended: the updates delivered so far are always an initial part of
\* 5, 30, 50, 75, 90, 100 (none skipped, none reordered); a fully consumed
\* stream has delivered all six; only the sixth carries data.
C1_SixEvents ==
    /\ IsPrefix(Progress(events), <<5, 30, 50, 75, 90, 100>>)
    /\ CarriesData(events) = (IF Len(events) = 6 THEN {6} ELSE {})
    /\ pc = "done" => Len(events) = 6

C1_Witness ==
    /\ pc = "done"
    /\ Progress(events) = <<5, 30, 50, 75, 90, 100>>
    /\ "data" \in DOMAIN events[6]

\* C2, as stated: the resolver is invoked exactly once, when three updates
\* (up to progress 50) have been delivered and the progress-75 update has
\* not, with the breed name of the third update; the final data is its result.
C2_ResolverBefore75 ==
    pc = "done" =>
        /\ Len(resolver_calls) = 1
        /\ resolver_calls[1].delivered = 3
        /\ resolver_calls[1].breed_type = events[3].message[2]
        /\ events[Len(events)].data = resolver_calls[1].result

\* C2, amended: the resolver is invoked at most once and never before the
\* progress-75 update has been delivered; once the progress-90 update is
\* delivered it has been invoked exactly once, after the 75 update and before
\* the 90 update, with the breed name of the progress-50 update and the
\* stream's species; the data of the final update is what that call returned.
C2_ResolverAfter75 ==
    /\ Len(resolver_calls) = (IF Len(events) >= 5 THEN 1 ELSE 0)
    /\ Len(resolver_calls) = 1 =>
        /\ resolver_calls[1].delivered = 4
        /\ events[4].progress = 75
        /\ events[5].progress = 90
        /\ events[3].progress = 50
        /\ resolver_calls[1].breed_type = events[3].message[2]
        /\ resolver_calls[1].animal_type = animal
    /\ Len(events) = 6 => events[6].data = resolver_calls[1].result

C2_Witness ==
    /\ pc = "done"
    /\ Len(resolver_calls) = 1
    /\ resolver_calls[1].delivered = 4
    /\ resolver_calls[1].breed_type \in BreedNames

\* C3: when opening the image or calling the model raises, detection yields
\* "Error detecting breed", the stream is never aborted and can always take
\* its next step, and its final update (progress 100) carries the
\* not-available record for that name.
C3_ErrorStillCompletes ==
    (model_outcome.kind \in {"open_error", "model_error"}) =>
        /\ pc # "raised"
        /\ DetectReturned
        /\ detected_breed = "Error detecting breed"
        /\ pc # "done" => ENABLED (Stage3 \/ Stage4 \/ Stage5 \/ Exhaust)
        /\ pc = "done" =>
            /\ Len(events) = 6
            /\ events[6].progress = 100
            /\ events[6].data = DataNotAvailable("Error detecting breed")
            /\ insights_data = <<events[6].data>>

C3_Witness ==
    /\ model_outcome.kind = "model_error"
    /\ pc = "done"
    /\ events[6].data.breed_type = "Error detecting breed"

\* C4, as stated: whatever the model handle and the loaded tables are, no
\* failure of the breed/insight path reaches the caller of the stream.
C4_NeverRaises == pc # "raised"

\* C5, as stated: once detection has run, its result follows the order of
\* precedence: no model -> "Default {Species}"; else no candidates ->
\* "Unknown {Species}"; else a raising call -> "Error detecting breed"; else
\* no results -> "Uncertain {Species}"; else the top label, a candidate.
C5_Precedence ==
    pc \in {"detected", "stage3", "stage4", "stage5", "done", "raised"} =>
        /\ pc # "raised"
        /\ LET species == IF animal = "cow" THEN "Cow" ELSE "Buffalo"
               table == IF animal = "cow" THEN cow_breeds ELSE buff_breeds
               candidates ==
                   [i \in 1..Len(table.rows) |-> table.rows[i]["Breed_Type"]]
           IN  IF ~breed_classifier
               THEN /\ detected_breed =
                         (IF animal = "cow" THEN "Default Cow"
                          ELSE "Default Buffalo")
                    /\ model_calls = <<>>
               ELSE IF candidates = <<>>
               THEN detected_breed =
                        (IF animal = "cow" THEN "Unknown Cow"
                         ELSE "Unknown Buffalo")
               ELSE IF model_outcome.kind \in {"open_error", "model_error"}
               THEN detected_breed = "Error detecting breed"
               ELSE IF model_outcome.results = <<>>
               THEN detected_breed =
                        (IF animal = "cow" THEN "Uncertain Cow"
                         ELSE "Uncertain Buffalo")
               ELSE /\ detected_breed = model_outcome.results[1].label
                    /\ \E i \in 1..Len(candidates) :
                           candidates[i] = detected_breed

\* the breed names of the table get_breed_insights searches for a species
NamesOf(table) ==
    IF "Breed_Type" \in table.columns
    THEN {table.rows[i]["Breed_Type"] : i \in 1..Len(table.rows)}
    ELSE {}

SearchedTable(animal_type) ==
    IF animal_type = "cow" THEN cow_breeds ELSE buff_breeds

\* the first row of the table carrying the name
FirstMatch(table, name) ==
    table.rows[CHOOSE i \in 1..Len(table.rows) :
                  /\ table.rows[i]["Breed_Type"] = name
                  /\ \A j \in 1..(i - 1) : table.rows[j]["Breed_Type"] # name]

\* C6, as stated: a name that equals no breed name of the species's table is
\* answered by the not-available record: the name echoed, "--", and
\* "Data not available" in the five other fields.
C6_AbsentNameNotAvailable ==
    \A i \in 1..Len(lookup) :
        lookup[i].breed_type \notin NamesOf(SearchedTable(lookup[i].animal_type))
            => lookup[i].result = DataNotAvailable(lookup[i].breed_type)

\* C6, amended: the same, for a table that has the breed-name column; a table
\* without it answers every name with the "Error fetching data" record.
C6_AbsentNameInKeyedTable ==
    \A i \in 1..Len(lookup) :
        LET table == SearchedTable(lookup[i].animal_type)
            name == lookup[i].breed_type
        IN  /\ ("Breed_Type" \in table.columns /\ name \notin NamesOf(table))
                => lookup[i].result = DataNotAvailable(name)
            /\ "Breed_Type" \notin table.columns
                => /\ lookup[i].result.breed_type = name
                   /\ lookup[i].result.farmers_percent = "--"
                   /\ lookup[i].result.annual_income.text = "Error fetching data"

C6_Witness ==
    /\ lookup # <<>>
    /\ lookup[1].breed_type = "Uncertain Cow"
    /\ lookup[1].animal_type = "cow"
    /\ Len(cow_breeds.rows) = 2
    /\ "Breed_Type" \in cow_breeds.columns
    /\ lookup[1].result.milk_per_day.text = "Data not available"

\* C7, as stated, on the tables most favourable to it (every column present,
\* no empty cell): for a name present in the species's table the annual
\* income returned is a number, exactly 12 times the monthly income returned.
C7_AnnualIsTwelveMonthly ==
    \A i \in 1..Len(lookup) :
        LET table == SearchedTable(lookup[i].animal_type)
        IN  (/\ lookup[i].breed_type \in NamesOf(table)
             /\ Cardinality(table.columns) = 5
             /\ \A j \in 1..Len(table.rows) :
                    \A c \in table.columns \ {"Breed_Type", "Popular_Areas"} :
                        table.rows[j][c] # NaN)
            => /\ lookup[i].result.annual_income.kind = "inr"
               /\ lookup[i].result.monthly_income.kind = "inr"
               /\ Value(lookup[i].result.annual_income.groups) =
                      12 * Value(lookup[i].result.monthly_income.groups)

\* C7, amended: for a name present in the table, with m the monthly income
\* of the first matching row (0 without the column): if m or the cost cell is
\* empty, or the cow table has no cost column, the income fields are
\* "Error fetching data"; otherwise annual_income is 12 * m rounded down to
\* whole rupees and monthly_income is m rounded down, so the annual figure
\* is 12 times the monthly one exactly when m is a whole number of rupees
\* (or its fraction is below a twelfth).
C7_AnnualIsTruncatedTwelveM ==
    \A i \in 1..Len(lookup) :
        LET a == lookup[i].animal_type
            table == SearchedTable(a)
            name == lookup[i].breed_type
            res == lookup[i].result
        IN  name \in NamesOf(table) =>
              LET row == FirstMatch(table, name)
                  monthlyCol == IF a = "cow" THEN "Monthly_Income_INR"
                                ELSE "Monthly_Income_per_Buffalo_INR"
                  costCol == IF a = "cow" THEN "Cost_Of_Cow_INR"
                             ELSE "Cost_per_Buffalo_INR"
                  m == IF monthlyCol \in table.columns THEN row[monthlyCol]
                       ELSE 0
                  fails == \/ m = NaN
                           \/ costCol \in table.columns /\ row[costCol] = NaN
                           \/ a = "cow" /\ costCol \notin table.columns
              IN  IF fails
                  THEN /\ res.annual_income.text = "Error fetching data"
                       /\ res.monthly_income.text = "Error fetching data"
                  ELSE /\ res.annual_income.kind = "inr"
                       /\ res.monthly_income.kind = "inr"
                       /\ Value(res.annual_income.groups) =
                              (12 * m) \div Denominator
                       /\ Value(res.monthly_income.groups) = m \div Denominator
                       /\ (m % Denominator = 0) =>
                              Value(res.annual_income.groups) =
                                  12 * Value(res.monthly_income.groups)

C7_Witness ==
    /\ lookup # <<>>
    /\ lookup[1].breed_type = "Murrah"
    /\ lookup[1].animal_type = "buffalo"
    /\ Len(buff_breeds.rows) = 2
    /\ "Breed_Type" \in buff_breeds.columns
    /\ buff_breeds.rows[1]["Breed_Type"] = "Murrah"
    /\ buff_breeds.rows[2]["Breed_Type"] = "Murrah"
    /\ lookup[1].result.annual_income.groups = <<84, 0>>
    /\ lookup[1].result.monthly_income.groups = <<7, 0>>

CsvLoadFailed == ~csv_files.cow.ok \/ ~csv_files.buffalo.ok

\* C8: after a failed load of either file both tables are the three-row
\* sample tables with distinct breed names; detection takes exactly those
\* names as candidates, and a lookup finds a name iff it is one of them
\* (formatted figures of its row when found, the not-available record
\* otherwise).
C8_FallbackTables ==
    CsvLoadFailed =>
        /\ Len(cow_breeds.rows) = 3
        /\ Len(buff_breeds.rows) = 3
        /\ [i \in 1..3 |-> cow_breeds.rows[i]["Breed_Type"]] =
               <<"Holstein-Friesian", "Jersey", "Guernsey">>
        /\ [i \in 1..3 |-> buff_breeds.rows[i]["Breed_Type"]] =
               <<"Murrah", "Nili-Ravi", "Jaffarabadi">>
        /\ Cardinality(NamesOf(cow_breeds)) = 3
        /\ Cardinality(NamesOf(buff_breeds)) = 3
        /\ pc # "raised"
        /\ \A i \in 1..Len(model_calls) :
               model_calls[i] =
                   (IF animal = "cow"
                    THEN <<"Holstein-Friesian", "Jersey", "Guernsey">>
                    ELSE <<"Murrah", "Nili-Ravi", "Jaffarabadi">>)
        /\ \A i \in 1..Len(resolver_calls) :
               LET name == resolver_calls[i].breed_type
                   res == resolver_calls[i].result
                   table == SearchedTable(resolver_calls[i].animal_type)
               IN  IF name \in NamesOf(table)
                   THEN /\ res.breed_type = name
                        /\ res.monthly_income.kind = "inr"
                        /\ Value(res.monthly_income.groups) * Denominator =
                               FirstMatch(table, name)
                                   [MonthlyCol(resolver_calls[i].animal_type)]
                   ELSE res = DataNotAvailable(name)

C8_Witness ==
    /\ csv_files.cow.ok
    /\ Len(csv_files.cow.table.rows) = 1
    /\ ~csv_files.buffalo.ok
    /\ pc = "done"
    /\ animal = "cow"
    /\ detected_breed = "Guernsey"
    /\ events[6].data.monthly_income.groups = <<7, 0>>

\* C9, as stated: with the model available and zero rows in the species's
\* table, detection invokes the model with the hard-coded fallback list and
\* does not answer "Unknown {Species}".
C9_FallbackListOnEmptyTable ==
    (DetectReturned /\ breed_classifier
        /\ Len(SearchedTable(animal).rows) = 0) =>
        /\ model_calls =
               << IF animal = "cow"
                  THEN <<"Holstein-Friesian", "Jersey", "Murrah", "Nili-Ravi">>
                  ELSE <<"Murrah", "Nili-Ravi", "Jaffarabadi", "Bhadawari">> >>
        /\ detected_breed \notin {"Unknown Cow", "Unknown Buffalo"}

\* C9, amended: with the model available and a table for the species that
\* has the breed-name column and zero rows, the candidate list is empty:
\* detection returns "Unknown {Species}" without invoking the model.
C9_UnknownOnEmptyTable ==
    (pc \in {"detected", "stage3", "stage4", "stage5", "done", "raised"}
        /\ breed_classifier
        /\ "Breed_Type" \in SearchedTable(animal).columns
        /\ Len(SearchedTable(animal).rows) = 0) =>
        /\ pc # "raised"
        /\ model_calls = <<>>
        /\ model_outcome.kind = "unused"
        /\ detected_breed =
               (IF animal = "cow" THEN "Unknown Cow" ELSE "Unknown Buffalo")

C9_Witness ==
    /\ pc = "detected"
    /\ breed_classifier
    /\ animal = "buffalo"
    /\ "Breed_Type" \in buff_breeds.columns
    /\ Len(buff_breeds.rows) = 0
    /\ detected_breed = "Unknown Buffalo"
    /\ events[3].message[2] = "Unknown Buffalo"

RECURSIVE LastScore(_)
\* the top score of the most recent call that returned results, 0 if none
LastScore(log) ==
    IF Len(log) = 0 THEN 0
    ELSE IF ~log[Len(log)].raised /\ Len(log[Len(log)].results) > 0
    THEN log[Len(log)].results[1].score
    ELSE LastScore(SubSeq(log, 1, Len(log) - 1))

\* C10: every call with a non-empty result returned its top label, every
\* call with an empty result returned "Unknown", and last_confidence is the
\* top score of the most recent call with a non-empty result (0.0 if there
\* was none): a call with an empty result leaves it as it was.
C10_ConfidenceOfLastNonEmpty ==
    /\ \A i \in 1..Len(classify_log) :
           ~classify_log[i].raised =>
               classify_log[i].returned =
                   (IF Len(classify_log[i].results) > 0
                    THEN classify_log[i].results[1].label
                    ELSE "Unknown")
    /\ last_confidence = LastScore(classify_log)

C10_Witness ==
    /\ Len(classify_log) = 2
    /\ classify_log[1].returned = "buffalo"
    /\ classify_log[2].returned = "Unknown"
    /\ ~classify_log[2].raised
    /\ classify_log[2].results = <<>>
    /\ last_confidence = 2

====
